---- MODULE Spec2Model ----
(***************************************************************************)
(* Model of plugins/modules/cml_link_node.py: one invocation of run_module *)
(* against a CML server holding labs, nodes, interfaces and links.         *)
(*                                                                         *)
(* The server state is the variable labs.  A task (the module parameters)  *)
(* is assembled by AnsibleModule argument parsing, then run_module runs    *)
(* to completion in one step: lab lookup, node lookup, interface lookup,   *)
(* link discovery and the present / updated / absent branch, including     *)
(* every remote call the branch makes.                                     *)
(***************************************************************************)
EXTENDS Integers, Sequences, FiniteSets, TLC

\* ------------------------------------------------------------------ bounds
\* Total number of interfaces a lab may hold (create_interface is capped).
MaxIfaces == 4
\* Number of labs on the server.
MaxLabs == 2

\* ------------------------------------------------------------- vocabulary
None == "None"
NoSlot == -1
NodeNames == {"R1", "R2", "R3"}
LabTitle == "lab"
OtherTitle == "other"
IfLabels == <<"eth0", "eth1", "eth2", "eth3", "eth4", "eth5", "eth6", "eth7">>

Iface(n, s) == [node |-> n, slot |-> s]
NoIface == Iface(None, NoSlot)
NoLink == {}

\* ----------------------------------------------------------- server model
\* A lab: its title, the number of interfaces of each node (slots 0..n-1,
\* slot s labelled IfLabels[s+1]) and its links, each the set of the two
\* interfaces it connects.
interfaces(lab, n) == {Iface(n, s) : s \in 0 .. (lab.nifs[n] - 1)}

all_interfaces(lab) == UNION {interfaces(lab, n) : n \in NodeNames}

TotalIfaces(lab) == Cardinality(all_interfaces(lab))

\* Interface.link: the link attached to the interface, or None.
link_of(lab, i) ==
    IF \E l \in lab.links : i \in l
    THEN CHOOSE l \in lab.links : i \in l
    ELSE NoLink

\* Link.nodes
link_nodes(l) == {i.node : i \in l}

find_labs_by_title(ls, title) ==
    LET idx[k \in 0 .. Len(ls)] ==
            IF k = 0 THEN <<>>
            ELSE IF ls[k].title = title THEN Append(idx[k - 1], k) ELSE idx[k - 1]
    IN idx[Len(ls)]

get_node_by_name(lab, name) ==
    IF name \in NodeNames THEN name ELSE None

get_interface_by_label(lab, n, label) ==
    LET found == {i \in interfaces(lab, n) : IfLabels[i.slot + 1] = label}
    IN IF found = {} THEN NoIface ELSE CHOOSE i \in found : TRUE

get_interface_by_slot(lab, n, slot) ==
    LET found == {i \in interfaces(lab, n) : i.slot = slot}
    IN IF found = {} THEN NoIface ELSE CHOOSE i \in found : TRUE

\* Node.get_links_to(other): the links of the node whose nodes include other.
get_links_to(lab, n, other) ==
    {l \in lab.links : (\E i \in l : i.node = n) /\ other \in link_nodes(l)}

\* Node.next_available_interface(): the first unconnected interface, or None.
next_available_interface(lab, n) ==
    LET free == {i \in interfaces(lab, n) : link_of(lab, i) = NoLink}
    IN IF free = {} THEN NoIface
       ELSE CHOOSE i \in free : \A j \in free : i.slot <= j.slot

\* Node.create_interface(): a new interface in the next slot.
create_interface(lab, n) ==
    [lab EXCEPT !.nifs[n] = @ + 1]

remove_link(lab, l) ==
    [lab EXCEPT !.links = @ \ {l}]

\* Lab.create_link(i1, i2).  The call raises when an argument is None, and the
\* server refuses an interface that already carries a link or a link from an
\* interface to itself.  Whether the server refuses a link between two
\* interfaces of one node is not decided by this repository: accept_self is
\* the server's answer.
create_link_ok(lab, i1, i2, accept_self) ==
    /\ i1 # NoIface /\ i2 # NoIface
    /\ i1 # i2
    /\ link_of(lab, i1) = NoLink /\ link_of(lab, i2) = NoLink
    /\ (i1.node = i2.node => accept_self)

create_link(lab, i1, i2) ==
    [lab EXCEPT !.links = @ \cup {{i1, i2}}]

\* ------------------------------------------------------------- run_module
\* What one invocation leaves behind: the server state, the exit (fail_json
\* or an uncaught exception: failed; exit_json: changed), the selected link
\* and the mutating calls made on the client library, in order.
Exit(lab, changed, link, trace) ==
    [lab |-> lab, failed |-> FALSE, changed |-> changed, msg |-> "",
     link |-> link, trace |-> trace]

Fail(lab, msg, link, trace) ==
    [lab |-> lab, failed |-> TRUE, changed |-> FALSE, msg |-> msg,
     link |-> link, trace |-> trace]

\* Lines 228-250: an interface requested by label or by slot.
requested(label, slot) == label # None \/ slot # NoSlot

lookup_interface(lab, n, label, slot) ==
    IF label # None THEN get_interface_by_label(lab, n, label)
    ELSE IF slot # NoSlot THEN get_interface_by_slot(lab, n, slot)
    ELSE NoIface

\* Lines 261-286: the for/else over the links between the two nodes, in the
\* order the client library lists them.
match_link(lab, links, source_interface, destination_interface) ==
    LET scan[k \in 1 .. Len(links) + 1] ==
            IF k > Len(links)
            THEN IF source_interface # NoIface /\ link_of(lab, source_interface) # NoLink
                 THEN [msg |-> "Source interface is already used in another link", link |-> NoLink]
                 ELSE IF destination_interface # NoIface
                         /\ link_of(lab, destination_interface) # NoLink
                 THEN [msg |-> "Destination interface is already used in another link", link |-> NoLink]
                 ELSE [msg |-> "", link |-> NoLink]
            ELSE LET ln == links[k] IN
                 IF source_interface # NoIface /\ source_interface \in ln
                 THEN IF destination_interface # NoIface /\ destination_interface \notin ln
                      THEN [msg |-> "Link found between nodes but destination interface does not match",
                            link |-> NoLink]
                      ELSE [msg |-> "", link |-> ln]
                 ELSE IF destination_interface # NoIface /\ destination_interface \in ln
                 THEN IF source_interface # NoIface /\ source_interface \notin ln
                      THEN [msg |-> "Link found between nodes but source interface does not match",
                            link |-> NoLink]
                      ELSE [msg |-> "", link |-> ln]
                 ELSE scan[k + 1]
    IN scan[1]

\* Mutant: the shortcut for a task without interface arguments is lost.
find_link_mut(lab, links, source_interface, destination_interface) ==
    IF Len(links) > 0
    THEN match_link(lab, links, source_interface, destination_interface)
    ELSE [msg |-> "", link |-> NoLink]

\* Lines 252-286: link discovery.
find_link(lab, links, source_interface, destination_interface) ==
    IF Len(links) > 0
    THEN IF source_interface = NoIface /\ destination_interface = NoIface
         THEN [msg |-> "", link |-> links[1]]
         ELSE match_link(lab, links, source_interface, destination_interface)
    ELSE [msg |-> "", link |-> NoLink]

\* "x = node.next_available_interface() or node.create_interface()" when no
\* interface was requested (lines 293-297, 310-311).
allocate(lab, n, given) ==
    IF given # NoIface
    THEN [lab |-> lab, iface |-> given, trace |-> <<>>]
    ELSE IF next_available_interface(lab, n) # NoIface
    THEN [lab |-> lab, iface |-> next_available_interface(lab, n), trace |-> <<>>]
    ELSE [lab |-> create_interface(lab, n), iface |-> Iface(n, lab.nifs[n]),
          trace |-> <<"create_interface">>]

\* Mutant: the link is created without looking at the link found.
present_mut(lab, check_mode, source_node, destination_node, source_interface, destination_interface, link, accept_self) ==
    IF check_mode THEN Exit(lab, TRUE, link, <<>>)
    ELSE LET src == allocate(lab, source_node, source_interface)
             dst == allocate(src.lab, destination_node, destination_interface)
             trace == src.trace \o dst.trace \o <<"create_link">>
         IN IF create_link_ok(dst.lab, src.iface, dst.iface, accept_self)
            THEN Exit(create_link(dst.lab, src.iface, dst.iface), TRUE, link, trace)
            ELSE Fail(dst.lab, "create_link raised", link, trace)

\* Lines 288-300.
present(lab, check_mode, source_node, destination_node, source_interface, destination_interface, link, accept_self) ==
    IF link # NoLink THEN Exit(lab, FALSE, link, <<>>)
    ELSE IF check_mode THEN Exit(lab, TRUE, link, <<>>)
    ELSE LET src == allocate(lab, source_node, source_interface)
             dst == allocate(src.lab, destination_node, destination_interface)
             trace == src.trace \o dst.trace \o <<"create_link">>
         IN IF create_link_ok(dst.lab, src.iface, dst.iface, accept_self)
            THEN Exit(create_link(dst.lab, src.iface, dst.iface), TRUE, link, trace)
            ELSE Fail(dst.lab, "create_link raised", link, trace)

\* Lines 301-316.
updated(lab, check_mode, update_node, source_interface, update_interface, link, accept_self) ==
    IF link = NoLink
    THEN Fail(lab, "Link between nodes does not exist so cannot be updated", link, <<>>)
    ELSE IF update_interface # NoIface /\ link_of(lab, update_interface) # NoLink
    THEN Fail(lab, "Update interface is already used in another link", link, <<>>)
    ELSE IF check_mode THEN Exit(lab, TRUE, link, <<>>)
    ELSE LET upd == allocate(remove_link(lab, link), update_node, update_interface)
             trace == <<"remove_link">> \o upd.trace \o <<"create_link">>
         IN IF create_link_ok(upd.lab, source_interface, upd.iface, accept_self)
            THEN Exit(create_link(upd.lab, source_interface, upd.iface), TRUE, link, trace)
            ELSE Fail(upd.lab, "create_link raised", link, trace)

\* Mutant: every link between the two nodes is removed, one call each.
absent_all(lab, check_mode, link) ==
    IF link = NoLink THEN Exit(lab, FALSE, link, <<>>)
    ELSE IF check_mode THEN Exit(lab, TRUE, link, <<>>)
    ELSE LET parallel == {l \in lab.links : link_nodes(l) = link_nodes(link)}
         IN Exit([lab EXCEPT !.links = @ \ parallel], TRUE, link,
                 [k \in 1 .. Cardinality(parallel) |-> "remove_link"])

\* Mutant: the removal is not reported as a change.
absent_mut(lab, check_mode, link) ==
    IF link = NoLink THEN Exit(lab, FALSE, link, <<>>)
    ELSE IF check_mode THEN Exit(lab, TRUE, link, <<>>)
    ELSE Exit(remove_link(lab, link), FALSE, link, <<"remove_link">>)

\* Lines 317-323.
absent(lab, check_mode, link) ==
    IF link = NoLink THEN Exit(lab, FALSE, link, <<>>)
    ELSE IF check_mode THEN Exit(lab, TRUE, link, <<>>)
    ELSE Exit(remove_link(lab, link), TRUE, link, <<"remove_link">>)

\* Mutant: the lab is taken only when exactly one lab has the title.
select_lab_mut(ls, title) ==
    IF Len(find_labs_by_title(ls, title)) = 1
    THEN find_labs_by_title(ls, title)[1]
    ELSE 0

\* Lines 202-206: the lab the invocation works on (0: none found).
select_lab(ls, title) ==
    IF Len(find_labs_by_title(ls, title)) > 0
    THEN find_labs_by_title(ls, title)[1]
    ELSE 0

\* Lines 209-324 on the selected lab; links is source_node.get_links_to(
\* destination_node) in the order the client library returns it.
reconcile(lab, p, links, accept_self) ==
    LET source_node == get_node_by_name(lab, p.source_node)
        destination_node == get_node_by_name(lab, p.destination_node)
        update_node == get_node_by_name(lab, p.update_node)
    IN
    IF source_node = None \/ destination_node = None
    THEN Fail(lab, "One or more nodes cannot be found", NoLink, <<>>)
    ELSE IF source_node = destination_node
    THEN Fail(lab, "Source and destination nodes cannot be the same", NoLink, <<>>)
    ELSE IF p.state = "updated" /\ update_node = None
    THEN Fail(lab, "State set to updated, but source_node was not found", NoLink, <<>>)
    ELSE IF p.update_node # None /\ update_node = None
    THEN Fail(lab, "Update_node specified, but it was not found", NoLink, <<>>)
    ELSE
    LET source_interface ==
            lookup_interface(lab, source_node, p.source_interface, p.source_interface_slot)
        destination_interface ==
            lookup_interface(lab, destination_node, p.destination_interface,
                             p.destination_interface_slot)
    IN
    IF requested(p.source_interface, p.source_interface_slot) /\ source_interface = NoIface
    THEN Fail(lab, "Source interface specified, but not found", NoLink, <<>>)
    ELSE IF requested(p.destination_interface, p.destination_interface_slot)
            /\ destination_interface = NoIface
    THEN Fail(lab, "Destination interface specified, but not found", NoLink, <<>>)
    ELSE IF requested(p.update_interface, p.update_interface_slot) /\ update_node = None
    THEN Fail(lab, "exception: update_node is None", NoLink, <<>>)
    ELSE
    LET update_interface ==
            IF update_node = None THEN NoIface
            ELSE lookup_interface(lab, update_node, p.update_interface, p.update_interface_slot)
        found == find_link(lab, links, source_interface, destination_interface)
    IN
    IF requested(p.update_interface, p.update_interface_slot) /\ update_interface = NoIface
    THEN Fail(lab, "Update interface specified, but not found", NoLink, <<>>)
    ELSE IF found.msg # ""
    THEN Fail(lab, found.msg, NoLink, <<>>)
    ELSE IF p.state = "present"
    THEN present(lab, p.check_mode, source_node, destination_node, source_interface,
                 destination_interface, found.link, accept_self)
    ELSE IF p.state = "updated"
    THEN updated(lab, p.check_mode, update_node, source_interface, update_interface,
                 found.link, accept_self)
    ELSE absent(lab, p.check_mode, found.link)

\* The links run_module gets from source_node.get_links_to(destination_node)
\* at line 254 (none when the invocation fails before that line).
links_between(ls, p) ==
    IF select_lab(ls, p.lab) = 0 THEN {}
    ELSE IF get_node_by_name(ls[select_lab(ls, p.lab)], p.source_node) = None
            \/ get_node_by_name(ls[select_lab(ls, p.lab)], p.destination_node) = None
    THEN {}
    ELSE get_links_to(ls[select_lab(ls, p.lab)], p.source_node, p.destination_node)

\* The orders in which a set of links can be listed.
Orders(S) ==
    {o \in [1 .. Cardinality(S) -> S] : \A a, b \in 1 .. Cardinality(S) : o[a] = o[b] => a = b}

\* Lines 198-324: the whole invocation.
run_module(ls, p, links, accept_self) ==
    IF select_lab(ls, p.lab) = 0
    THEN [labs |-> ls, res |-> Fail(None, "Cannot find lab", NoLink, <<>>)]
    ELSE LET k == select_lab(ls, p.lab)
             r == reconcile(ls[k], p, links, accept_self)
         IN [labs |-> [ls EXCEPT ![k] = r.lab], res |-> [r EXCEPT !.lab = None]]

\* cml.result as the invocation ends, with the mode it ran in.
Outcome(res, check_mode) ==
    [failed |-> res.failed, changed |-> res.changed, msg |-> res.msg,
     link |-> res.link, trace |-> res.trace, check_mode |-> check_mode]

\* ------------------------------------------------------------ the inputs
States == {"present", "updated", "absent"}
Titles == {LabTitle, OtherTitle}
\* <<source_node, destination_node>>: two nodes, one node twice, an unknown
\* destination, an unknown source.
NodeArgs == {<<"R1", "R2">>, <<"R1", "R1">>, <<"R1", "R9">>, <<"R9", "R2">>}
\* update_node: with state=updated any node name, else unset or unknown.
UpdateNames == {"R1", "R2", "R3", "R9"}
OtherUpdateNames == {None, "R9"}
LabelArgs == {None, "eth0"}
SlotArgs == {NoSlot, 1}

NoTask ==
    [lab |-> None, state |-> None, check_mode |-> FALSE,
     source_node |-> None, destination_node |-> None, update_node |-> None,
     source_interface |-> None, source_interface_slot |-> NoSlot,
     destination_interface |-> None, destination_interface_slot |-> NoSlot,
     update_interface |-> None, update_interface_slot |-> NoSlot]

NoRun == [failed |-> FALSE, changed |-> FALSE, msg |-> "not run",
          link |-> NoLink, trace |-> <<>>, check_mode |-> FALSE]

\* The labs a server can hold: interfaces on every node, links between
\* interfaces of two distinct nodes, at most one link per interface.
LabShapes == {f \in [NodeNames -> 0 .. MaxIfaces] : f["R1"] + f["R2"] + f["R3"] <= MaxIfaces}

PossibleLinks(nifs) ==
    {{Iface(q[1], q[2]), Iface(q[3], q[4])} :
        q \in {q \in NodeNames \X (0 .. MaxIfaces - 1) \X NodeNames \X (0 .. MaxIfaces - 1) :
                  q[1] # q[3] /\ q[2] < nifs[q[1]] /\ q[4] < nifs[q[3]]}}

WellFormedLinks(links) ==
    \A l1, l2 \in links : l1 # l2 => l1 \cap l2 = {}

BlankLab(title) == [title |-> title, nifs |-> [n \in NodeNames |-> 1], links |-> {}]

VARIABLES labs, task, pc, last, prev

vars == <<labs, task, pc, last, prev>>

Idle ==
    /\ task = NoTask
    /\ pc = "idle"
    /\ last = NoRun
    /\ prev = NoRun

\* A server with one lab, in any well-formed state.
Init ==
    /\ \E f \in LabShapes :
         \E ls \in SUBSET PossibleLinks(f) :
           /\ WellFormedLinks(ls)
           /\ labs = <<[title |-> LabTitle, nifs |-> f, links |-> ls]>>
    /\ Idle

\* A server with up to MaxLabs freshly created labs, under any titles.
InitLabs ==
    /\ \E n \in 0 .. MaxLabs :
         \E titles \in [1 .. n -> Titles] :
           labs = [k \in 1 .. n |-> BlankLab(titles[k])]
    /\ Idle

\* AnsibleModule(argument_spec, required_if, ...): the task's state, mode and
\* node names (lines 158-197).
SetTask(states) ==
    /\ pc = "idle"
    /\ \E st \in states, cm \in BOOLEAN, sd \in NodeArgs,
          u \in UpdateNames \cup OtherUpdateNames :
         /\ st = "updated" => u \in UpdateNames
         /\ st # "updated" => u \in OtherUpdateNames
         /\ task' = [NoTask EXCEPT !.lab = LabTitle, !.state = st, !.check_mode = cm,
                                   !.source_node = sd[1], !.destination_node = sd[2],
                                   !.update_node = u]
    /\ pc' = "args"
    /\ UNCHANGED <<labs, last, prev>>

\* The task's interface arguments, label and slot mutually exclusive and
\* update_interface only with update_node (lines 163-185).
SetInterfaces ==
    /\ pc = "args"
    /\ \E sl \in LabelArgs, ss \in SlotArgs, dl \in LabelArgs, ds \in SlotArgs,
          ul \in LabelArgs, us \in SlotArgs :
         /\ ~(sl # None /\ ss # NoSlot)
         /\ ~(dl # None /\ ds # NoSlot)
         /\ ~(ul # None /\ us # NoSlot)
         /\ ul # None => task.update_node # None
         /\ <<sl, ss, dl, ds, ul, us>> # <<None, NoSlot, None, NoSlot, None, NoSlot>>
         /\ task' = [task EXCEPT !.source_interface = sl, !.source_interface_slot = ss,
                                 !.destination_interface = dl,
                                 !.destination_interface_slot = ds,
                                 !.update_interface = ul, !.update_interface_slot = us]
    /\ pc' = "ready"
    /\ UNCHANGED <<labs, last, prev>>

\* One invocation of the module with parameters p: the client library lists
\* the links in some order, the server answers, the module runs to its exit.
Invoke(p) ==
    \E links \in Orders(links_between(labs, p)), accept_self \in BOOLEAN :
      LET out == run_module(labs, p, links, accept_self) IN
        /\ \A k \in 1 .. Len(out.labs) : TotalIfaces(out.labs[k]) <= MaxIfaces
        /\ labs' = out.labs
        /\ last' = Outcome(out.res, p.check_mode)

\* The task is run, with the interface arguments given so far.
Run ==
    /\ pc \in {"args", "ready"}
    /\ Invoke(task)
    /\ pc' = "done"
    /\ UNCHANGED <<task, prev>>

\* The same task is run once more, in check mode or not.
Rerun ==
    /\ pc = "done"
    /\ prev = NoRun
    /\ \E cm \in BOOLEAN :
         /\ task' = [task EXCEPT !.check_mode = cm]
         /\ Invoke(task')
    /\ prev' = last
    /\ UNCHANGED pc

\* The play moves on to another task.
Finish ==
    /\ pc = "done"
    /\ task' = NoTask
    /\ pc' = "idle"
    /\ last' = NoRun
    /\ prev' = NoRun
    /\ UNCHANGED labs

\* Tasks of every state, each run once.
Next == SetTask(States) \/ SetInterfaces \/ Run \/ Finish

Spec == Init /\ [][Next]_vars

\* state=present tasks, each run once or twice.
NextPresent == SetTask({"present"}) \/ SetInterfaces \/ Run \/ Rerun \/ Finish

SpecPresent == Init /\ [][NextPresent]_vars

\* state=absent tasks, each run once or twice.
NextAbsent == SetTask({"absent"}) \/ SetInterfaces \/ Run \/ Rerun \/ Finish

SpecAbsent == Init /\ [][NextAbsent]_vars

\* Tasks of every state, each run once, on a server with any number of labs.
SpecLabs == InitLabs /\ [][Next]_vars

\* ------------------------------------------------------------ the claims
\* A step that ends in pc' = "done" is one invocation (Run or Rerun): labs is
\* the server before it, labs' the server after it, last' its result.
NoInterfaceArgs(p) ==
    /\ ~requested(p.source_interface, p.source_interface_slot)
    /\ ~requested(p.destination_interface, p.destination_interface_slot)

\* C1: a state=updated invocation on an existing source-destination link,
\* with update_node resolved, succeeds with changed=true; afterwards the
\* selected link is gone and a new link joins source_node and update_node.
C1_UpdatedRelinks ==
    [][(/\ pc' = "done"
        /\ task'.state = "updated"
        /\ ~task'.check_mode
        /\ last'.link # NoLink
        /\ task'.update_node # task'.source_node
        /\ last'.msg # "Update interface is already used in another link")
       => (/\ ~last'.failed
           /\ last'.changed
           /\ last'.link \notin labs'[1].links
           /\ \E l \in labs'[1].links \ labs[1].links :
                link_nodes(l) = {task'.source_node, task'.update_node})]_vars

\* An explicitly requested interface of node n that is attached to a link
\* which is not a link between source_node and destination_node.
BusyElsewhere(lab, p, n, label, slot) ==
    /\ requested(label, slot)
    /\ lookup_interface(lab, n, label, slot) # NoIface
    /\ link_of(lab, lookup_interface(lab, n, label, slot)) # NoLink
    /\ link_of(lab, lookup_interface(lab, n, label, slot))
          \notin get_links_to(lab, p.source_node, p.destination_node)

\* C2: an invocation whose requested source or destination interface is
\* attached to a link other than a source-destination link fails and
\* mutates nothing.
C2_InterfaceInUseFails ==
    [][(/\ pc' = "done"
        /\ task'.source_node \in NodeNames
        /\ task'.destination_node \in NodeNames
        /\ \/ BusyElsewhere(labs[1], task', task'.source_node, task'.source_interface,
                            task'.source_interface_slot)
           \/ BusyElsewhere(labs[1], task', task'.destination_node,
                            task'.destination_interface, task'.destination_interface_slot))
       => (last'.failed /\ labs' = labs /\ last'.trace = <<>>)]_vars

\* C3: a check-mode invocation makes no mutating call, and the real
\* invocation of the same task on the same server ends as it did (failure,
\* or success with the same changed).
C3_CheckModeFaithful ==
    /\ (pc = "done" /\ last.check_mode) => last.trace = <<>>
    /\ (pc = "done" /\ prev # NoRun /\ prev.check_mode /\ ~last.check_mode)
          => (last.failed = prev.failed /\ last.changed = prev.changed)

\* C4: when a (real) state=present invocation succeeded with changed=true,
\* the next invocation of the same task succeeds with changed=false and makes
\* no mutating call.
C4_PresentIdempotent ==
    (/\ pc = "done"
     /\ task.state = "present"
     /\ prev # NoRun
     /\ ~prev.check_mode /\ ~prev.failed /\ prev.changed)
    => (~last.failed /\ ~last.changed /\ last.trace = <<>>)

C4_Witness ==
    /\ pc = "done"
    /\ task.state = "present"
    /\ task.source_interface # None
    /\ task.destination_interface_slot # NoSlot
    /\ prev # NoRun
    /\ ~prev.check_mode /\ ~prev.failed /\ prev.changed
    /\ ~last.changed

\* C5: every link of every lab joins interfaces of two distinct nodes.
C5_NoSelfLinks ==
    \A k \in 1 .. Len(labs) : \A l \in labs[k].links : Cardinality(link_nodes(l)) = 2

LinkCalls(trace) == SelectSeq(trace, LAMBDA c : c \in {"create_link", "remove_link"})

LinkCallSequences ==
    {<<>>, <<"create_link">>, <<"remove_link">>, <<"remove_link", "create_link">>}

\* C6 as claimed: the mutating calls of an invocation are none, one link
\* create, one link remove, or one remove then one create, and nothing else.
C6_LinkCallsOnly ==
    pc = "done" => last.trace \in LinkCallSequences

\* C6 as amended: the calls on links are one of those four sequences; the
\* only other mutating calls are at most two create_interface calls, each
\* made before the link create that follows it.
C6_CallSequences ==
    pc = "done" =>
      /\ LinkCalls(last.trace) \in LinkCallSequences
      /\ \A k \in 1 .. Len(last.trace) :
           /\ last.trace[k] \in {"create_link", "remove_link", "create_interface"}
           /\ last.trace[k] = "create_interface"
                => /\ last.trace[Len(last.trace)] = "create_link"
                   /\ \A j \in 1 .. k : last.trace[j] # "create_link"
      /\ Len(last.trace) - Len(LinkCalls(last.trace)) <= 2

C6_Witness ==
    /\ pc = "done"
    /\ last.trace = <<"remove_link", "create_interface", "create_link">>
    /\ ~last.failed

\* C7 as claimed: with zero or with several labs of the requested title the
\* invocation fails without a mutating call.
C7_ExactlyOneLab ==
    (pc = "done" /\ Len(find_labs_by_title(labs, task.lab)) # 1)
    => (last.failed /\ last.trace = <<>>)

\* C7 as amended: with no lab of the requested title the invocation fails
\* with "Cannot find lab" and nothing is mutated; with one or more, the
\* lookup succeeds and only the first lab of that title can change.
C7_FirstLabUsed ==
    [][pc' = "done" =>
         IF Len(find_labs_by_title(labs, task'.lab)) = 0
         THEN /\ last'.failed
              /\ last'.msg = "Cannot find lab"
              /\ last'.trace = <<>>
              /\ labs' = labs
         ELSE /\ last'.msg # "Cannot find lab"
              /\ \A k \in 1 .. Len(labs) :
                   k # find_labs_by_title(labs, task'.lab)[1] => labs'[k] = labs[k]]_vars

C7_Witness ==
    /\ pc = "done"
    /\ Len(find_labs_by_title(labs, task.lab)) > 1
    /\ last.changed
    /\ ~last.check_mode
    /\ labs[find_labs_by_title(labs, task.lab)[1]].links # {}
    /\ labs[find_labs_by_title(labs, task.lab)[2]].links = {}

\* C8: an invocation that ends in a failure leaves the labs as they were.
C8_FailureLeavesLabs ==
    [][(pc' = "done" /\ last'.failed) => labs' = labs]_vars

C10_AbsentConverges ==
    /\ (/\ pc = "done"
        /\ task.state = "absent"
        /\ NoInterfaceArgs(task)
        /\ ~last.check_mode /\ ~last.failed)
       => links_between(labs, task) = {}
    /\ (/\ pc = "done"
        /\ task.state = "absent"
        /\ NoInterfaceArgs(task)
        /\ prev # NoRun
        /\ ~prev.check_mode /\ ~prev.failed)
       => ~last.changed

\* C10 as amended: each successful real state=absent invocation without
\* interface arguments removes one source-destination link when there is
\* one, so none remains when at most one was there before it; and once none
\* remains, the next invocation of the same task changes nothing and reports
\* changed=false.
C10_AbsentRemovesOne ==
    [][/\ (/\ pc' = "done"
           /\ task'.state = "absent"
           /\ NoInterfaceArgs(task')
           /\ ~last'.check_mode /\ ~last'.failed)
          => /\ Cardinality(links_between(labs, task')) <= 1
                  => links_between(labs', task') = {}
             /\ Cardinality(links_between(labs, task')) >= 1
                  => Cardinality(links_between(labs', task'))
                       = Cardinality(links_between(labs, task')) - 1
       /\ (/\ pc = "done" /\ pc' = "done"
           /\ task.state = "absent"
           /\ NoInterfaceArgs(task)
           /\ ~last.check_mode /\ ~last.failed
           /\ links_between(labs, task) = {})
          => (~last'.failed /\ ~last'.changed /\ labs' = labs)]_vars

C10_Witness ==
    /\ pc = "done"
    /\ task.state = "absent"
    /\ NoInterfaceArgs(task)
    /\ prev # NoRun
    /\ ~prev.check_mode /\ ~prev.failed /\ prev.changed
    /\ ~last.failed /\ ~last.changed
    /\ labs[1].links # {}

====
